---- MODULE Spec2Model ----
(***************************************************************************)
(* Model of pdl (src/main.rs): a podcast downloader that fetches an RSS    *)
(* feed, lets the user pick an episode and streams it to a file.           *)
(*                                                                         *)
(* Strings are sequences of Unicode code points (Rust `char`s), so that    *)
(* character replacement, trimming, splitting, lower-casing and substring  *)
(* search are computed the way the standard library computes them.         *)
(* Option<T> is a sequence of length 0 (None) or 1 (Some(x)).              *)
(***************************************************************************)
EXTENDS Integers, Sequences, FiniteSets, TLC

VARIABLES
    mode,            \* which entry point is exercised: "main" or a helper function
    title_in,        \* argument `title` of sanitize_filename (helper runs)
    url_in,          \* argument `url` of get_extension_from_url (helper runs)
    ret,             \* values returned so far by the helper calls
    pc,              \* position of main / download_episode
    limit,           \* args.n
    feed,            \* channel.items(): sequence of [title, enclosure]
    episodes,        \* Vec<Episode> returned by fetch_episodes
    calls,           \* functions main has invoked so far
    chosen,          \* 1-based position of the option the user picked
    selection,       \* the string Select::prompt returned
    selected_index,  \* Option<usize> from position()
    dir_exists,      \* podcast-downloads/ exists
    files,           \* files in podcast-downloads/: name -> bytes
    fs_at_start,     \* <<dir_exists, files>> when the program started
    filepath,        \* Option: name of the destination file
    content_length,  \* Option<u64>: what response.content_length() returns
    total_size,      \* Option<u64>: local total_size, the progress bar's length
    body,            \* bytes of the response body not yet read
    body_read,       \* number of body bytes handed out by read
    buffer,          \* bytes_read bytes of the chunk read and not yet written
    downloaded,      \* u64 counter of download_episode
    pb_position,     \* Option: position of the progress bar, once created
    stdout,          \* lines printed, as tags
    error,           \* context of the error main returned, "" if none
    exit_status      \* Option: process exit status

vars == <<mode, title_in, url_in, ret, pc, limit, feed, episodes, calls,
          chosen, selection, selected_index, dir_exists, files, fs_at_start,
          filepath, content_length, total_size, body, body_read, buffer,
          downloaded, pb_position, stdout, error, exit_status>>

main_vars == <<pc, limit, feed, episodes, calls, chosen, selection,
               selected_index, dir_exists, files, fs_at_start, filepath,
               content_length, total_size, body, body_read, buffer,
               downloaded, pb_position, stdout, error, exit_status>>

(***************************************************************************)
(* Bounds of the model.                                                    *)
(***************************************************************************)
MaxTitleLen == 3
MaxUrlLen == 4
MaxNameLen == 2
MaxItems == 3
MaxLimit == 3
MaxTotal == 3

None == <<>>
Some(x) == <<x>>

Min(a, b) == IF a < b THEN a ELSE b

\* All strings over alphabet A of length at most n.
StringsUpTo(A, n) == UNION {[1..k -> A] : k \in 0..n}

(***************************************************************************)
(* String helpers of the standard library used by the program.             *)
(***************************************************************************)

\* char::is_whitespace: the Unicode White_Space property (used by str::trim).
is_whitespace(c) ==
    \/ c \in 9..13
    \/ c \in {32, 133, 160, 5760, 8232, 8233, 8239, 8287, 12288}
    \/ c \in 8192..8202

\* Variant of trim_start that strips at most one leading whitespace char.
trim_start_once(s) ==
    IF s # <<>> /\ is_whitespace(Head(s)) THEN Tail(s) ELSE s

\* str::trim_start: drop leading whitespace chars.
RECURSIVE trim_start(_)
trim_start(s) ==
    IF s # <<>> /\ is_whitespace(Head(s)) THEN trim_start(Tail(s)) ELSE s

\* str::trim_end: drop trailing whitespace chars.
RECURSIVE trim_end(_)
trim_end(s) ==
    IF s # <<>> /\ is_whitespace(s[Len(s)])
    THEN trim_end(SubSeq(s, 1, Len(s) - 1))
    ELSE s

\* str::trim
trim(s) == trim_end(trim_start(s))

\* char::to_lowercase, for the code points the model draws from: ASCII
\* upper-case letters map to lower case; the others used here have no case.
char_to_lowercase(c) == IF c \in 65..90 THEN c + 32 ELSE c

\* str::to_lowercase
to_lowercase(s) == [i \in 1..Len(s) |-> char_to_lowercase(s[i])]

\* str::split(char), collected: the segments between occurrences of d.
\* Always yields at least one segment (the whole string when d is absent).
RECURSIVE split_from(_, _, _)
split_from(s, d, cur) ==
    IF s = <<>> THEN <<cur>>
    ELSE IF Head(s) = d THEN <<cur>> \o split_from(Tail(s), d, <<>>)
    ELSE split_from(Tail(s), d, Append(cur, Head(s)))

split(s, d) == split_from(s, d, <<>>)

\* str::contains(&str): pat occurs in s as a contiguous substring.
contains(s, pat) ==
    \E i \in 1..(Len(s) - Len(pat) + 1) : SubSeq(s, i, i + Len(pat) - 1) = pat

(***************************************************************************)
(* sanitize_filename and get_extension_from_url.                           *)
(***************************************************************************)

\* Variant of the match in sanitize_filename that forgets the '|' arm.
replace_invalid_no_pipe(c) ==
    IF c \in {47, 92, 58, 42, 63, 34, 60, 62} THEN 45 ELSE c

\* The match of sanitize_filename:
\*   '/' | '\\' | ':' | '*' | '?' | '"' | '<' | '>' | '|' => '-',  _ => c
replace_invalid(c) ==
    IF c \in {47, 92, 58, 42, 63, 34, 60, 62, 124} THEN 45 ELSE c

sanitize_filename(title) ==
    trim([i \in 1..Len(title) |-> replace_invalid(title[i])])

\* Variant of get_extension_from_url that does not strip the query string.
get_extension_keep_query(url) ==
    LET segs == split(url, 46)
    IN  to_lowercase(IF segs = <<>> THEN <<109, 112, 51>> ELSE segs[Len(segs)])

\* url.split('?').next().unwrap_or(url), then
\* path.split('.').last().unwrap_or("mp3").to_lowercase()
get_extension_from_url(url) ==
    LET parts == split(url, 63)
        path  == IF parts = <<>> THEN url ELSE Head(parts)
        segs  == split(path, 46)
    IN  to_lowercase(IF segs = <<>> THEN <<109, 112, 51>> ELSE segs[Len(segs)])

\* format!("{}.{}", filename, extension) in download_episode
file_name(title, url) ==
    sanitize_filename(title) \o <<46>> \o get_extension_from_url(url)

(***************************************************************************)
(* Inputs.                                                                 *)
(***************************************************************************)

\* Code points titles are drawn from: the nine replaced characters, '-',
\* space, tab, 'a', 'A' and a non-ASCII letter (U+D55C).
TitleChars == {47, 92, 58, 42, 63, 34, 60, 62, 124, 45, 32, 9, 97, 65, 54620}

\* Code points URLs are drawn from: '.', '?', '/', 'a', 'A', '3'.
UrlChars == {46, 63, 47, 97, 65, 51}

\* Smaller alphabets for the runs that draw a title and a URL together.
NameTitleChars == {47, 32, 97, 46}
NameUrlChars == {46, 63, 47, 97, 65}

\* Titles and enclosure URLs of the feed items in runs of main:
\* "a", "ba" and "a.M3?a".
FeedTitles == {<<97>>, <<98, 97>>}
FeedUrls == {<<97, 46, 77, 51, 63, 97>>}

Items == [title : {None} \cup {Some(t) : t \in FeedTitles},
          enclosure : {None} \cup {Some(u) : u \in FeedUrls}]

Feeds == UNION {[1..k -> Items] : k \in 0..MaxItems}

\* Bytes an older file of the same name holds before the download.
OldContent == <<0, 0>>

EmptyDir == [n \in {} |-> <<>>]

OldFiles ==
    [n \in {file_name(t, u) : t \in FeedTitles, u \in FeedUrls} |-> OldContent]

\* The first n bytes of the media stream: byte i of the stream is i.
Stream(n) == [i \in 1..n |-> i]

(***************************************************************************)
(* fetch_episodes: the iterator chain over channel.items().                *)
(***************************************************************************)

\* Iterator::take
take(s, n) == SubSeq(s, 1, Min(n, Len(s)))

\* filter_map(|item| Some(Episode { title: item.title()?, url: item.enclosure()?.url() }))
RECURSIVE filter_map(_)
filter_map(s) ==
    IF s = <<>> THEN <<>>
    ELSE LET item == Head(s)
         IN  IF item.title = None \/ item.enclosure = None
             THEN filter_map(Tail(s))
             ELSE <<[title |-> item.title[1], url |-> item.enclosure[1]]>>
                  \o filter_map(Tail(s))

\* Variant that filters first and takes `limit` valid episodes.
fetch_episodes_fill(items, n) == take(filter_map(items), n)

\* channel.items().iter().take(limit).filter_map(..).collect()
fetch_episodes(items, n) == filter_map(take(items, n))

(***************************************************************************)
(* main: the selection menu.                                               *)
(***************************************************************************)

\* Display of a usize: its decimal digits.
RECURSIVE to_decimal(_)
to_decimal(n) ==
    IF n < 10 THEN <<48 + n>> ELSE Append(to_decimal(n \div 10), 48 + (n % 10))

\* episodes.iter().enumerate().map(|(i, ep)| format!("{}. {}", i + 1, ep.title))
episode_titles(eps) ==
    [k \in 1..Len(eps) |-> to_decimal(k) \o <<46, 32>> \o eps[k].title]

\* episodes.iter().position(|ep| selection.contains(&ep.title)): the 0-based
\* index of the first episode whose title occurs in the selection.
position(eps, sel) ==
    LET hits == {k \in 1..Len(eps) : contains(sel, eps[k].title)}
    IN  IF hits = {} THEN None
        ELSE Some((CHOOSE k \in hits : \A j \in hits : k <= j) - 1)

(***************************************************************************)
(* File operations.                                                        *)
(***************************************************************************)

\* Variant of File::create that opens an existing file without truncating.
file_create_keep(fs, name) ==
    IF name \in DOMAIN fs THEN fs
    ELSE [n \in DOMAIN fs \cup {name} |-> IF n = name THEN <<>> ELSE fs[n]]

\* File::create: create the file, or truncate it if it exists.
file_create(fs, name) ==
    [n \in DOMAIN fs \cup {name} |-> IF n = name THEN <<>> ELSE fs[n]]

\* Bytes appended at the file's write position.
file_write(fs, name, bytes) == [fs EXCEPT ![name] = @ \o bytes]

\* vec![0; 8192]: the most one read can return.
BufSize == 8192

(***************************************************************************)
(* Initial states.                                                         *)
(***************************************************************************)

IdleMain ==
    /\ pc = "off"
    /\ limit = 0
    /\ feed = <<>>
    /\ episodes = <<>>
    /\ calls = {}
    /\ chosen = 0
    /\ selection = <<>>
    /\ selected_index = None
    /\ dir_exists = FALSE
    /\ files = EmptyDir
    /\ fs_at_start = <<FALSE, EmptyDir>>
    /\ filepath = None
    /\ content_length = None
    /\ total_size = None
    /\ body = <<>>
    /\ body_read = 0
    /\ buffer = <<>>
    /\ downloaded = 0
    /\ pb_position = None
    /\ stdout = <<>>
    /\ error = ""
    /\ exit_status = None

Init ==
    /\ mode = "main"
    /\ title_in = <<>>
    /\ url_in = <<>>
    /\ ret = <<>>
    /\ pc = "start"
    /\ limit \in 0..MaxLimit
    /\ feed \in Feeds
    /\ episodes = <<>>
    /\ calls = {}
    /\ chosen = 0
    /\ selection = <<>>
    /\ selected_index = None
    /\ dir_exists \in BOOLEAN
    /\ files \in (IF dir_exists THEN {EmptyDir, OldFiles} ELSE {EmptyDir})
    /\ fs_at_start = <<dir_exists, files>>
    /\ filepath = None
    /\ content_length = None
    /\ total_size = None
    /\ body = <<>>
    /\ body_read = 0
    /\ buffer = <<>>
    /\ downloaded = 0
    /\ pb_position = None
    /\ stdout = <<>>
    /\ error = ""
    /\ exit_status = None

(***************************************************************************)
(* main.                                                                   *)
(***************************************************************************)

\* An Err propagated by `?` out of main: the error is printed and the
\* process ends with status 1.
Fail(msg) ==
    /\ pc' = "exit"
    /\ error' = msg
    /\ exit_status' = Some(1)

helper_unchanged == UNCHANGED <<mode, title_in, url_in, ret>>

download_unchanged ==
    UNCHANGED <<dir_exists, files, fs_at_start, filepath, content_length,
                total_size, body, body_read, buffer, downloaded, pb_position>>

select_unchanged == UNCHANGED <<chosen, selection, selected_index>>

\* main up to the return of fetch_episodes, the feed fetched and parsed.
FetchOk ==
    /\ pc = "start"
    /\ stdout' = stdout \o <<"banner", "fetching">>
    /\ calls' = calls \cup {"fetch_episodes"}
    /\ episodes' = fetch_episodes(feed, limit)
    /\ pc' = "fetched"
    /\ UNCHANGED <<limit, feed, error, exit_status>>
    /\ select_unchanged /\ download_unchanged /\ helper_unchanged

\* fetch_episodes fails: the GET, the body read or the RSS parse.
FetchErr ==
    /\ pc = "start"
    /\ stdout' = stdout \o <<"banner", "fetching">>
    /\ calls' = calls \cup {"fetch_episodes"}
    /\ \E msg \in {"Failed to fetch RSS feed",
                   "Failed to read RSS feed response",
                   "Failed to parse RSS feed"} : Fail(msg)
    /\ UNCHANGED <<limit, feed, episodes>>
    /\ select_unchanged /\ download_unchanged /\ helper_unchanged

\* Variant of the empty check that prints the message and does not return.
NoEpisodesFallThrough ==
    /\ pc = "fetched"
    /\ episodes = <<>>
    /\ stdout' = Append(stdout, "no_episodes")
    /\ pc' = "prompt"
    /\ UNCHANGED <<limit, feed, episodes, calls, error, exit_status>>
    /\ select_unchanged /\ download_unchanged /\ helper_unchanged

\* if episodes.is_empty() { println!("No episodes found in the feed."); return Ok(()) }
NoEpisodes ==
    /\ pc = "fetched"
    /\ episodes = <<>>
    /\ stdout' = Append(stdout, "no_episodes")
    /\ pc' = "exit"
    /\ exit_status' = Some(0)
    /\ UNCHANGED <<limit, feed, episodes, calls, error>>
    /\ select_unchanged /\ download_unchanged /\ helper_unchanged

\* The list is not empty: main goes on to build the menu.
HaveEpisodes ==
    /\ pc = "fetched"
    /\ episodes # <<>>
    /\ pc' = "prompt"
    /\ UNCHANGED <<limit, feed, episodes, calls, stdout, error, exit_status>>
    /\ select_unchanged /\ download_unchanged /\ helper_unchanged

\* Select::new(.., episode_titles).prompt() returns one of the options.
PromptOk ==
    /\ pc = "prompt"
    /\ calls' = calls \cup {"prompt"}
    /\ \E k \in 1..Len(episodes) :
          /\ chosen' = k
          /\ selection' = episode_titles(episodes)[k]
    /\ pc' = "selected"
    /\ UNCHANGED <<limit, feed, episodes, selected_index, stdout, error,
                   exit_status>>
    /\ download_unchanged /\ helper_unchanged

\* The prompt fails (cancelled, not a terminal, no options).
PromptErr ==
    /\ pc = "prompt"
    /\ calls' = calls \cup {"prompt"}
    /\ Fail("Failed to get user selection")
    /\ UNCHANGED <<limit, feed, episodes, stdout>>
    /\ select_unchanged /\ download_unchanged /\ helper_unchanged

\* The index is recovered from the selection; main prints "Downloading: .."
\* and calls download_episode(&episodes[selected_index]).
Locate ==
    /\ pc = "selected"
    /\ LET found == position(episodes, selection)
       IN  IF found = None
           THEN /\ Fail("Could not find selected episode")
                /\ UNCHANGED <<selected_index, stdout, calls>>
           ELSE /\ selected_index' = found
                /\ stdout' = Append(stdout, "downloading")
                /\ calls' = calls \cup {"download_episode"}
                /\ pc' = "download"
                /\ UNCHANGED <<error, exit_status>>
    /\ UNCHANGED <<limit, feed, episodes, chosen, selection>>
    /\ download_unchanged /\ helper_unchanged

\* download_episode returned Ok: println!("Download complete!"); Ok(())
Complete ==
    /\ pc = "returned"
    /\ stdout' = Append(stdout, "complete")
    /\ pc' = "exit"
    /\ exit_status' = Some(0)
    /\ UNCHANGED <<limit, feed, episodes, calls, error>>
    /\ select_unchanged /\ download_unchanged /\ helper_unchanged

(***************************************************************************)
(* download_episode.                                                       *)
(***************************************************************************)

main_unchanged ==
    UNCHANGED <<limit, feed, episodes, calls, chosen, selection,
                selected_index, fs_at_start>>

selected_episode == episodes[selected_index[1] + 1]

\* fs::create_dir_all succeeds; the destination path is computed.
CreateDirOk ==
    /\ pc = "download"
    /\ dir_exists' = TRUE
    /\ filepath' = Some(file_name(selected_episode.title, selected_episode.url))
    /\ pc' = "send"
    /\ UNCHANGED <<files, content_length, total_size, body, body_read, buffer,
                   downloaded, pb_position, stdout, error, exit_status>>
    /\ main_unchanged /\ helper_unchanged

\* fs::create_dir_all fails: the directory is missing and cannot be made.
CreateDirErr ==
    /\ pc = "download"
    /\ ~dir_exists
    /\ Fail("Failed to create download directory")
    /\ UNCHANGED <<dir_exists, files, filepath, content_length, total_size,
                   body, body_read, buffer, downloaded, pb_position, stdout>>
    /\ main_unchanged /\ helper_unchanged

\* client.get(url).send() returns a response.  A response that knows its
\* length carries exactly that many body bytes (content_length() is the
\* body's exact size); one that does not carries any number of them.
SendOk ==
    /\ pc = "send"
    /\ \/ \E t \in 0..MaxTotal :
             /\ content_length' = Some(t)
             /\ body' = Stream(t)
       \/ \E n \in 0..MaxTotal :
             /\ content_length' = None
             /\ body' = Stream(n)
    /\ pc' = "length"
    /\ UNCHANGED <<dir_exists, files, filepath, total_size, body_read, buffer,
                   downloaded, pb_position, stdout, error, exit_status>>
    /\ main_unchanged /\ helper_unchanged

\* send() fails.
SendErr ==
    /\ pc = "send"
    /\ Fail("Failed to start download")
    /\ UNCHANGED <<dir_exists, files, filepath, content_length, total_size,
                   body, body_read, buffer, downloaded, pb_position, stdout>>
    /\ main_unchanged /\ helper_unchanged

\* Variant in which the output file is created before the length is asked for.
CheckLengthAfterCreate ==
    /\ pc = "length"
    /\ files' = file_create(files, filepath[1])
    /\ IF content_length = None
       THEN /\ Fail("Failed to get content length")
            /\ UNCHANGED <<total_size, pb_position>>
       ELSE /\ total_size' = content_length
            /\ pb_position' = Some(0)
            /\ pc' = "create"
            /\ UNCHANGED <<error, exit_status>>
    /\ UNCHANGED <<dir_exists, filepath, content_length, body, body_read,
                   buffer, downloaded, stdout>>
    /\ main_unchanged /\ helper_unchanged

\* response.content_length().context(..)?, then ProgressBar::new(total_size),
\* which starts at position 0.
CheckLength ==
    /\ pc = "length"
    /\ IF content_length = None
       THEN /\ Fail("Failed to get content length")
            /\ UNCHANGED <<total_size, pb_position>>
       ELSE /\ total_size' = content_length
            /\ pb_position' = Some(0)
            /\ pc' = "create"
            /\ UNCHANGED <<error, exit_status>>
    /\ UNCHANGED <<dir_exists, files, filepath, content_length, body,
                   body_read, buffer, downloaded, stdout>>
    /\ main_unchanged /\ helper_unchanged

\* File::create(&filepath) succeeds; downloaded = 0.
CreateFileOk ==
    /\ pc = "create"
    /\ files' = file_create(files, filepath[1])
    /\ downloaded' = 0
    /\ pc' = "read"
    /\ UNCHANGED <<dir_exists, filepath, content_length, total_size, body,
                   body_read, buffer, pb_position, stdout, error, exit_status>>
    /\ main_unchanged /\ helper_unchanged

\* File::create fails.
CreateFileErr ==
    /\ pc = "create"
    /\ Fail("Failed to create output file")
    /\ UNCHANGED <<dir_exists, files, filepath, content_length, total_size,
                   body, body_read, buffer, downloaded, pb_position, stdout>>
    /\ main_unchanged /\ helper_unchanged

\* read returns bytes_read > 0: between 1 and min(8192, what is left) bytes.
ReadChunk ==
    /\ pc = "read"
    /\ body # <<>>
    /\ \E n \in 1..Min(BufSize, Len(body)) :
          /\ buffer' = SubSeq(body, 1, n)
          /\ body' = SubSeq(body, n + 1, Len(body))
          /\ body_read' = body_read + n
    /\ pc' = "write"
    /\ UNCHANGED <<dir_exists, files, filepath, content_length, total_size,
                   downloaded, pb_position, stdout, error, exit_status>>
    /\ main_unchanged /\ helper_unchanged

\* read returns 0 at the end of the stream: break, finish the bar, print
\* "Saved to: ..", return Ok(()).
ReadEof ==
    /\ pc = "read"
    /\ body = <<>>
    /\ stdout' = Append(stdout, "saved")
    /\ pc' = "returned"
    /\ UNCHANGED <<dir_exists, files, filepath, content_length, total_size,
                   body, body_read, buffer, downloaded, pb_position, error,
                   exit_status>>
    /\ main_unchanged /\ helper_unchanged

\* read fails.
ReadErr ==
    /\ pc = "read"
    /\ Fail("Failed to read download chunk")
    /\ UNCHANGED <<dir_exists, files, filepath, content_length, total_size,
                   body, body_read, buffer, downloaded, pb_position, stdout>>
    /\ main_unchanged /\ helper_unchanged

\* file.write_all(&buffer[..bytes_read]) succeeds; downloaded += bytes_read;
\* pb.set_position(downloaded).
WriteOk ==
    /\ pc = "write"
    /\ files' = file_write(files, filepath[1], buffer)
    /\ downloaded' = downloaded + Len(buffer)
    /\ pb_position' = Some(downloaded')
    /\ buffer' = <<>>
    /\ pc' = "read"
    /\ UNCHANGED <<dir_exists, filepath, content_length, total_size, body,
                   body_read, stdout, error, exit_status>>
    /\ main_unchanged /\ helper_unchanged

\* Variant of the write failure that removes the partial file.
WriteErrRemoveFile ==
    /\ pc = "write"
    /\ files' = [n \in DOMAIN files \ {filepath[1]} |-> files[n]]
    /\ Fail("Failed to write to file")
    /\ UNCHANGED <<dir_exists, filepath, content_length, total_size, body,
                   body_read, buffer, downloaded, pb_position, stdout>>
    /\ main_unchanged /\ helper_unchanged

\* write_all fails, after writing some part (possibly none) of the chunk.
WriteErr ==
    /\ pc = "write"
    /\ \E n \in 0..(Len(buffer) - 1) :
          files' = file_write(files, filepath[1], SubSeq(buffer, 1, n))
    /\ Fail("Failed to write to file")
    /\ UNCHANGED <<dir_exists, filepath, content_length, total_size, body,
                   body_read, buffer, downloaded, pb_position, stdout>>
    /\ main_unchanged /\ helper_unchanged

Next ==
    \/ FetchOk
    \/ FetchErr
    \/ NoEpisodes
    \/ HaveEpisodes
    \/ PromptOk
    \/ PromptErr
    \/ Locate
    \/ Complete
    \/ CreateDirOk
    \/ CreateDirErr
    \/ SendOk
    \/ SendErr
    \/ CheckLength
    \/ CreateFileOk
    \/ CreateFileErr
    \/ ReadChunk
    \/ ReadEof
    \/ ReadErr
    \/ WriteOk
    \/ WriteErr

Spec == Init /\ [][Next]_vars

(***************************************************************************)
(* The helper functions run on their own, on every input of bounded size.  *)
(***************************************************************************)

\* sanitize_filename(title), then sanitize_filename of its result.
SanitizeInit ==
    /\ mode = "sanitize"
    /\ title_in \in StringsUpTo(TitleChars, MaxTitleLen)
    /\ url_in = <<>>
    /\ ret = <<>>
    /\ IdleMain

CallSanitize ==
    /\ mode = "sanitize"
    /\ ret = <<>>
    /\ ret' = <<sanitize_filename(title_in)>>
    /\ UNCHANGED <<mode, title_in, url_in>>
    /\ UNCHANGED main_vars

CallSanitizeAgain ==
    /\ mode = "sanitize"
    /\ Len(ret) = 1
    /\ ret' = Append(ret, sanitize_filename(ret[1]))
    /\ UNCHANGED <<mode, title_in, url_in>>
    /\ UNCHANGED main_vars

SanitizeNext == CallSanitize \/ CallSanitizeAgain

SpecSanitize == SanitizeInit /\ [][SanitizeNext]_vars

\* get_extension_from_url(url).
ExtensionInit ==
    /\ mode = "extension"
    /\ title_in = <<>>
    /\ url_in \in StringsUpTo(UrlChars, MaxUrlLen)
    /\ ret = <<>>
    /\ IdleMain

CallExtension ==
    /\ mode = "extension"
    /\ ret = <<>>
    /\ ret' = <<get_extension_from_url(url_in)>>
    /\ UNCHANGED <<mode, title_in, url_in>>
    /\ UNCHANGED main_vars

ExtensionNext == CallExtension

SpecExtension == ExtensionInit /\ [][ExtensionNext]_vars

\* The file name download_episode builds from a title and a media URL.
FileNameInit ==
    /\ mode = "file_name"
    /\ title_in \in StringsUpTo(NameTitleChars, MaxNameLen)
    /\ url_in \in StringsUpTo(NameUrlChars, MaxNameLen)
    /\ ret = <<>>
    /\ IdleMain

CallFileName ==
    /\ mode = "file_name"
    /\ ret = <<>>
    /\ ret' = <<file_name(title_in, url_in)>>
    /\ UNCHANGED <<mode, title_in, url_in>>
    /\ UNCHANGED main_vars

FileNameNext == CallFileName

SpecFileName == FileNameInit /\ [][FileNameNext]_vars

(***************************************************************************)
(* Properties.                                                             *)
(***************************************************************************)

\* C1: sanitize_filename returns the input with each of / \ : * ? " < > |
\* replaced by '-', every other character unchanged and in order, and with
\* exactly the leading and trailing whitespace removed: the result is the
\* replaced input between positions lo and hi, everything outside lo..hi is
\* whitespace, and the result neither starts nor ends with whitespace.
C1_SanitizeReplacesAndTrims ==
    ret # <<>> =>
        LET x == title_in
            y == ret[1]
            Repl(c) == IF c \in {47, 92, 58, 42, 63, 34, 60, 62, 124} THEN 45 ELSE c
        IN  \E lo \in 1..(Len(x) + 1) : \E hi \in (lo - 1)..Len(x) :
               /\ Len(y) = hi - lo + 1
               /\ \A k \in 1..Len(y) : y[k] = Repl(x[lo + k - 1])
               /\ \A k \in 1..(lo - 1) : is_whitespace(x[k])
               /\ \A k \in (hi + 1)..Len(x) : is_whitespace(x[k])
               /\ Len(y) > 0 => ~is_whitespace(y[1]) /\ ~is_whitespace(y[Len(y)])

\* A title with leading whitespace, a replaced character and a non-ASCII
\* letter has been sanitized to two characters.
C1_Witness ==
    /\ mode = "sanitize"
    /\ ret # <<>>
    /\ Len(title_in) = 3
    /\ is_whitespace(title_in[1])
    /\ title_in[2] \in {47, 92, 58, 42, 63, 34, 60, 62, 124}
    /\ title_in[3] = 54620
    /\ ret[1] = <<45, 54620>>

\* C2: get_extension_from_url returns the lower-cased final '.'-separated
\* segment of the part of the URL before its first '?'; without a '.' in
\* that part the result is the whole part, lower-cased.
C2_ExtensionIsLastSegment ==
    ret # <<>> =>
        LET u == url_in
            qs == {i \in 1..Len(u) : u[i] = 63}
            q == IF qs = {} THEN Len(u) + 1
                 ELSE CHOOSE i \in qs : \A j \in qs : i <= j
            path == SubSeq(u, 1, q - 1)
            ds == {i \in 1..Len(path) : path[i] = 46}
            d == IF ds = {} THEN 0 ELSE CHOOSE i \in ds : \A j \in ds : j <= i
            Lower(c) == IF c \in 65..90 THEN c + 32 ELSE c
            seg == SubSeq(path, d + 1, Len(path))
        IN  /\ ret[1] = [k \in 1..Len(seg) |-> Lower(seg[k])]
            /\ ds = {} => ret[1] = [k \in 1..Len(path) |-> Lower(path[k])]

\* A URL with a '.' before and after its first '?' and an upper-case letter
\* in the final segment of the path has had its extension extracted.
C2_Witness ==
    /\ mode = "extension"
    /\ ret # <<>>
    /\ \E q \in 1..Len(url_in) :
          /\ url_in[q] = 63
          /\ \A i \in 1..(q - 1) : url_in[i] # 63
          /\ \E i \in 1..(q - 1) : url_in[i] = 46
          /\ \E i \in (q + 1)..Len(url_in) : url_in[i] = 46
          /\ q > 1 /\ url_in[q - 1] = 65
    /\ ret[1] = <<97>>

FetchSucceeded ==
    /\ pc \notin {"off", "start"}
    /\ error \notin {"Failed to fetch RSS feed",
                     "Failed to read RSS feed response",
                     "Failed to parse RSS feed"}

ValidItem(item) == item.title # None /\ item.enclosure # None

\* C3: fetch_episodes returns exactly the items among the first
\* min(limit, K) feed items that have a title and an enclosure URL, in feed
\* order: the r-th valid item among them is the r-th episode.
C3_FetchTakesThenFilters ==
    FetchSucceeded =>
        LET m == Min(limit, Len(feed))
            valid == {i \in 1..m : ValidItem(feed[i])}
        IN  /\ Len(episodes) = Cardinality(valid)
            /\ \A i \in valid :
                  LET r == Cardinality({j \in valid : j <= i})
                  IN  episodes[r] = [title |-> feed[i].title[1],
                                     url |-> feed[i].enclosure[1]]

\* The limit cuts the feed before a valid item, an item within the limit
\* was skipped, and the list came out shorter than the limit.
C3_Witness ==
    /\ FetchSucceeded
    /\ limit >= 1
    /\ limit < Len(feed)
    /\ ~ValidItem(feed[1])
    /\ ValidItem(feed[Len(feed)])
    /\ Len(episodes) < limit

\* C4: the episode main passes to download_episode is the i-th episode of
\* the list, where "{i}. {title}" is the option the prompt returned.
C4_SelectedIsChosen ==
    selected_index # None => episodes[selected_index[1] + 1] = episodes[chosen]

DownloadCompleted ==
    /\ pc \in {"returned", "exit"}
    /\ \E k \in 1..Len(stdout) : stdout[k] = "saved"

\* C5: when download_episode completes for a response of content length T,
\* the written file is T bytes long and the last progress position is T.
C5_CompleteFileHasTotalSize ==
    DownloadCompleted =>
        /\ total_size # None
        /\ Len(files[filepath[1]]) = total_size[1]
        /\ downloaded = total_size[1]
        /\ pb_position = Some(total_size[1])

\* A download of at least two bytes completed over an older file of the
\* same name.
C5_Witness ==
    /\ DownloadCompleted
    /\ total_size # None
    /\ total_size[1] >= 2
    /\ filepath[1] \in DOMAIN fs_at_start[2]

\* C6: once the fetched list is empty (always so for limit = 0) the only
\* thing the program does is print the "no episodes" message and exit 0:
\* the prompt and download_episode are never invoked, nothing is created.
C6_EmptyListExitsCleanly ==
    /\ (FetchSucceeded /\ limit = 0) => episodes = <<>>
    /\ (FetchSucceeded /\ episodes = <<>>) =>
          /\ pc \in {"fetched", "exit"}
          /\ calls = {"fetch_episodes"}
          /\ <<dir_exists, files>> = fs_at_start
          /\ error = ""
          /\ pc = "exit" => /\ exit_status = Some(0)
                            /\ stdout = <<"banner", "fetching", "no_episodes">>

\* With limit 0 and a feed whose first item is valid, the program has
\* exited after the "no episodes" message.
C6_Witness ==
    /\ mode = "main"
    /\ pc = "exit"
    /\ limit = 0
    /\ feed # <<>>
    /\ ValidItem(feed[1])
    /\ "no_episodes" \in {stdout[k] : k \in 1..Len(stdout)}

\* C7: sanitize_filename is idempotent.
C7_SanitizeIdempotent ==
    Len(ret) = 2 => ret[2] = ret[1]

\* A title that sanitizing changed, to something not empty, was sanitized
\* twice.
C7_Witness ==
    /\ mode = "sanitize"
    /\ Len(ret) = 2
    /\ ret[1] # title_in
    /\ ret[1] # <<>>
    /\ is_whitespace(title_in[1])

LoopErrors == {"Failed to read download chunk", "Failed to write to file"}

C9_NoLengthFailsBeforeCreate ==
    error = "Failed to get content length" =>
        /\ pc = "exit"
        /\ exit_status = Some(1)
        /\ files = fs_at_start[2]
        /\ body_read = 0
        /\ dir_exists

\* The length was missing while an older file of the computed name existed
\* and body bytes were pending.
C9_Witness ==
    /\ error = "Failed to get content length"
    /\ filepath[1] \in DOMAIN files
    /\ body # <<>>

\* C10: the file name download_episode computes holds no '/' and no '\'.
C10_FileNameHasNoSeparator ==
    \A k \in 1..Len(ret) : \A i \in 1..Len(ret[k]) : ret[k][i] \notin {47, 92}

====
